---- MODULE Spec2Model ----
(***************************************************************************)
(* A model of the arenalloc crate: BucketImpl / Bucket (arena/bucket.rs),  *)
(* Arena / Scope (arena/arena.rs) and LocalBox (collections/localbox.rs). *)
(*                                                                         *)
(* usize is WordBits wide (the crate is no_std and target independent; a   *)
(* 16-bit usize keeps every word-sized product inside the range of the     *)
(* model checker's integers).  Addresses are byte addresses.              *)
(***************************************************************************)
EXTENDS Integers, Sequences, FiniteSets

\* ------------------------------------------------------------------ bounds
MaxBuckets == 3
MaxCalls == 3
MaxBoxes == 2

\* --------------------------------------------------------------- the target
WordBits == 16
WordMod == 2 ^ WordBits
\* size_of::<usize>() = align_of::<usize>()
WordBytes == WordBits \div 8
\* Arena::new's first bucket, and bucket_size's fallback
DefaultCapacity == 512
\* where the system allocator starts handing out memory
HeapStart == 8192

\* element types T, as (size_of, align_of)
TU8 == [size |-> 1, align |-> 1]
TU64 == [size |-> 8, align |-> 8]
TPage == [size |-> 4096, align |-> 4096]
Types == {TU8, TU64, TPage}
Counts == {0, 1, 128, 512, 8192}
\* the element types and values LocalBox is used with
BoxTypes == {TU8, TU64}
Vals == {1, 2}

\* slack the system allocator may leave before a block placed above the
\* earlier ones (any multiple of the block's alignment; placing a block above
\* or below the earlier ones already gives aligned and unaligned data starts)
AllocPads == {0}

VARIABLES
    index,            \* Arena.index
    buckets,          \* Arena.buckets: sequence of [ptr, cap, index]
    brk,              \* system allocator: first address never handed out
    allocated,        \* system allocator: every block ever returned by alloc_zeroed
    released,         \* system allocator: the (ptr, layout) pairs passed to dealloc, in order
    alive,            \* the Arena has not been dropped
    scope_open,       \* a region callback is running (a Scope exists)
    panicked,         \* the thread panicked (unwrap / expect / assert! / overflow check)
    overflow_checks,  \* the build panics on arithmetic overflow (debug) or wraps (release)
    regions,          \* the regions Scope::malloc returned Ok for, in order (open: the
                      \* region call they were made in has not returned)
    last,             \* the latest Scope::malloc / LocalBox::new call and its outcome
    calls,            \* number of Scope::malloc calls issued so far
    boxes,            \* the LocalBox handles created, in order
    mem               \* bytes written through handles: address -> value

vars == <<index, buckets, brk, allocated, released, alive, scope_open, panicked,
          overflow_checks, regions, last, calls, boxes, mem>>

\* ---------------------------------------------------------------- helpers
RoundUp(n, a) == ((n + a - 1) \div a) * a
RoundDown(n, a) == (n \div a) * a
Max(a, b) == IF a >= b THEN a ELSE b
Min(a, b) == IF a <= b THEN a ELSE b
Range(s) == {s[i] : i \in DOMAIN s}

\* ------------------------------------------------------- bucket.rs: layouts
\* Layout::new::<Cell<usize>>()
header_layout == [size |-> WordBytes, align |-> WordBytes]

\* Layout::new::<Cell<MaybeUninit<u8>>>().repeat(size)
data_layout(size) == [ok |-> size < WordMod, size |-> size, align |-> 1]

\* header_layout().extend(data_layout(size)?)?.0.pad_to_align()
layout_from_size(size) ==
    LET d == data_layout(size)
        offset == RoundUp(header_layout.size, d.align)
        align == Max(header_layout.align, d.align)
        total == RoundUp(offset + d.size, align)
    IN  [ok |-> d.ok /\ total < WordMod, size |-> total, align |-> align]

\* offset of the `data` field inside the #[repr(C)] BucketImpl
data_offset == RoundUp(header_layout.size, 1)

\* self.data.as_ptr() as usize
data_ptr(b) == b.ptr + data_offset

\* BucketImpl::capacity / Bucket::capacity
capacity(b) == b.cap

\* BucketImpl::is_full
is_full(b) == b.index = capacity(b)

\* ------------------------------------------------- bucket.rs: placement
\* BucketImpl::data_start_address
data_start_address(b) == data_ptr(b) + b.index

\* fn next_power_of(n, pow) inside align_index_for
next_power_of(n, pow) ==
    LET remain == n % pow
    IN  IF remain # 0 THEN n + (pow - remain) ELSE n

\* align_index_for aligning the index instead of the address
align_index_for_offset_only(b, T) == next_power_of(b.index, T.align)

\* align_index_for rounding the address down to the alignment
align_index_for_down(b, T) ==
    RoundDown(data_start_address(b), T.align) - data_ptr(b)

\* BucketImpl::align_index_for::<T>
align_index_for(b, T) ==
    LET start_addr == data_start_address(b)
        aligned_start == next_power_of(start_addr, T.align)
    IN  aligned_start - data_ptr(b)

\* mem::size_of::<T>() * size, as the build computes it
mul_overflows(T, size) == T.size * size >= WordMod
wrapping_mul(T, size) == (T.size * size) % WordMod

\* the cursor stepping one byte past the end of the region
cursor_past_end(a, b) == a + b + 1

\* the cursor left at the start of the region
cursor_not_advanced(a, b) == a

\* start.saturating_add(total_alloc_size)
saturating_add(a, b) == Min(a + b, WordMod - 1)

\* the range check of the start only, the length unchecked
slice_get_start_only(cap, start, len) == start <= cap

\* the range check with the last byte of the bucket left out
slice_get_short(cap, start, len) == start <= cap /\ len < cap - start

\* self.data.get(start..).and_then(|slice| slice.get(..len)) is Some
slice_get(cap, start, len) == start <= cap /\ len <= cap - start

\* BucketImpl::malloc::<T>(size) on bucket b.
\* res: "ok" (Ok(ptr)), "cap" (Err(CapacityError)), "panic_overflow" (the
\* overflow check on the product) or "panic_assert" (the alignment assert!)
\* start: the aligned index; ptr: the address returned; index: the cursor afterwards
bucket_malloc(b, T, size, checks) ==
    LET start == align_index_for(b, T)
        total_alloc_size == wrapping_mul(T, size)
        fits == slice_get(capacity(b), start, total_alloc_size)
        ptr == data_ptr(b) + start
        end == saturating_add(start, total_alloc_size)
    IN  IF checks /\ mul_overflows(T, size)
        THEN [res |-> "panic_overflow", start |-> start, ptr |-> 0, index |-> b.index]
        ELSE IF ~fits
        THEN [res |-> "cap", start |-> start, ptr |-> 0, index |-> b.index]
        ELSE IF ptr % T.align # 0
        THEN [res |-> "panic_assert", start |-> start, ptr |-> 0, index |-> b.index]
        ELSE [res |-> "ok", start |-> start, ptr |-> ptr, index |-> end]

\* ---------------------------------------------- bucket.rs: raw allocation
\* the system allocator as the blocks it handed out leave it: brk is the
\* first address above them, low the first address of the lowest of them
heap_of(blocks, heap_brk) ==
    [brk |-> heap_brk,
     low |-> IF blocks = {} THEN heap_brk
             ELSE CHOOSE p \in {k.ptr : k \in blocks} : \A k \in blocks : p <= k.ptr]

\* BucketImpl::alloc_raw(layout): alloc_zeroed returns null (ok = FALSE) or a
\* fresh block aligned for the layout, above every block handed out so far
\* (at or after brk) or below all of them (ending at or before low)
alloc_raw(layout, heap) ==
    {[ok |-> FALSE, ptr |-> 0]} \cup
    {[ok |-> TRUE, ptr |-> RoundUp(heap.brk, layout.align) + pad] : pad \in
        {p \in AllocPads : p % layout.align = 0
            /\ RoundUp(heap.brk, layout.align) + p + layout.size < WordMod}} \cup
    {[ok |-> TRUE, ptr |-> RoundDown(heap.low - layout.size, layout.align)] : z \in
        {y \in {0} : heap.low - layout.size >= layout.align}}

\* Bucket::new(size): Err(RawAllocError) (ok = FALSE) or a bucket whose header
\* (the cursor) is zeroed
bucket_new(size, heap) ==
    LET layout == layout_from_size(size)
    IN  IF ~layout.ok
        THEN {[ok |-> FALSE, bucket |-> [ptr |-> 0, cap |-> 0, index |-> 0], layout |-> layout]}
        ELSE {[ok |-> r.ok, bucket |-> [ptr |-> r.ptr, cap |-> size, index |-> 0],
               layout |-> layout] : r \in alloc_raw(layout, heap)}

\* dealloc_raw sizing the layout by the bytes in use instead of the capacity
dealloc_raw_by_cursor(b) ==
    LET layout == layout_from_size(b.index)
    IN  [ptr |-> b.ptr, size |-> layout.size, align |-> layout.align]

\* BucketImpl::dealloc_raw(this): the (ptr, layout) pair handed to dealloc
dealloc_raw(b) ==
    LET layout == layout_from_size(capacity(b))
    IN  [ptr |-> b.ptr, size |-> layout.size, align |-> layout.align]

\* ------------------------------------------------------------- arena.rs
\* An arena value a is [index, buckets, brk, allocated]; Rust indexes buckets
\* from 0, the sequence from 1.

\* Arena::bucket_size
bucket_size(a) ==
    IF a.index + 1 \in DOMAIN a.buckets
    THEN capacity(a.buckets[a.index + 1])
    ELSE DefaultCapacity

\* Arena::last_bucket: "none", "some", or "panic" (bucket[index] out of bounds)
last_bucket(a) ==
    IF a.buckets = <<>> THEN "none"
    ELSE IF a.index + 1 \in DOMAIN a.buckets THEN "some"
    ELSE "panic"

\* grow asking for a bucket of the same size again
grown_capacity_same(len) == len

\* grow adding one default bucket's worth instead of doubling
grown_capacity_linear(len) == len + DefaultCapacity

\* the capacity Arena::grow asks Bucket::new for: len * 2
grown_capacity(len) == len * 2

\* grow stepping the index past the bucket it appended
grown_index_skip(i) == i + 2

\* grow forgetting to advance the index
grown_index_stuck(i) == i

\* the index Arena::grow stores: self.index() + 1
grown_index(i) == i + 1

\* Arena::grow: the outcomes of one growth step.  panic: "" (none),
\* "panic_overflow" (len * 2 under overflow checks) or "panic_unwrap"
\* (Bucket::new(..).unwrap() met an Err); raw_err: Bucket::new returned
\* Err(RawAllocError), from the allocator or from the layout
grow(a, checks) ==
    LET len == bucket_size(a)
    IN  IF checks /\ grown_capacity(len) >= WordMod
        THEN {[panic |-> "panic_overflow", raw_err |-> FALSE, a |-> a]}
        ELSE {IF n.ok
              THEN [panic |-> "", raw_err |-> FALSE,
                    a |-> [index |-> grown_index(a.index),
                           buckets |-> Append(a.buckets, n.bucket),
                           brk |-> Max(a.brk, n.bucket.ptr + n.layout.size),
                           allocated |-> a.allocated \cup
                               {[ptr |-> n.bucket.ptr, size |-> n.layout.size,
                                 align |-> n.layout.align]}]]
              ELSE [panic |-> "panic_unwrap", raw_err |-> TRUE, a |-> a]
              : n \in bucket_new(grown_capacity(len) % WordMod,
                                  heap_of(a.allocated, a.brk))}

\* the cursor update landing in the first bucket instead of the active one
with_cursor_first(a, i) ==
    [a EXCEPT !.buckets = [a.buckets EXCEPT ![1].index = i]]

\* the arena with the cursor of its active bucket set to i
with_cursor(a, i) ==
    [a EXCEPT !.buckets = [a.buckets EXCEPT ![a.index + 1].index = i]]

\* last.malloc(size) on the active bucket of a, folded into a call outcome
\* ("panic_index": bucket[index] is out of bounds)
attempt(a, T, size, checks, grew) ==
    IF last_bucket(a) # "some"
    THEN [res |-> "panic_index", ptr |-> 0, start |-> 0, bucket |-> a.index,
          grew |-> grew, raw_err |-> FALSE, a |-> a]
    ELSE LET m == bucket_malloc(a.buckets[a.index + 1], T, size, checks)
         IN  [res |-> m.res, ptr |-> m.ptr, start |-> m.start, bucket |-> a.index,
              grew |-> grew, raw_err |-> FALSE, a |-> with_cursor(a, m.index)]

\* the outcome of a call that panicked inside grow
grow_panicked(g, grew) ==
    [res |-> g.panic, ptr |-> 0, start |-> 0, bucket |-> g.a.index, grew |-> grew,
     raw_err |-> g.raw_err, a |-> g.a]

\* Arena::malloc::<T>(size): the set of outcomes of one call
\* res: "ok", "cap" (CapacityError returned to the caller) or a panic;
\* grew: buckets appended by the call; raw_err: a Bucket::new of the call
\* returned Err; bucket: the bucket (0-based) the result came from; a: the
\* arena afterwards
arena_malloc(a, T, size, checks) ==
    LET firsts == IF last_bucket(a) = "none"
                  THEN {IF g.panic # "" THEN grow_panicked(g, 0)
                        ELSE attempt(g.a, T, size, checks, 1) : g \in grow(a, checks)}
                  ELSE {attempt(a, T, size, checks, 0)}
        retry(f) == IF f.res # "cap"
                    THEN {f}
                    ELSE {IF g.panic # "" THEN grow_panicked(g, f.grew)
                          ELSE attempt(g.a, T, size, checks, f.grew + 1)
                          : g \in grow(f.a, checks)}
    IN  UNION {retry(f) : f \in firsts}

\* the call did not return: it panicked
is_panic(res) == res \notin {"ok", "cap"}

\* Scope::malloc: forwards to Arena::malloc
scope_malloc(a, T, size, checks) == arena_malloc(a, T, size, checks)

\* Arena::new: vec![Bucket::new(512).unwrap()], index 0
arena_new ==
    {[index |-> 0, buckets |-> <<n.bucket>>, brk |-> n.bucket.ptr + n.layout.size,
      allocated |-> {[ptr |-> n.bucket.ptr, size |-> n.layout.size,
                      align |-> n.layout.align]}]
     : n \in {m \in bucket_new(DefaultCapacity, heap_of({}, HeapStart)) : m.ok}}

\* the end of a region call rewinding the Arena to its first bucket
region_end_rewind(a) ==
    [a EXCEPT !.index = 0,
              !.buckets = [i \in DOMAIN a.buckets |-> [a.buckets[i] EXCEPT !.index = 0]]]

\* Arena::region after f(&scope) returned: the Scope is dropped, the Arena
\* is not touched
region_end(a) == a

\* the Arena as a value
arena == [index |-> index, buckets |-> buckets, brk |-> brk, allocated |-> allocated]

\* ---------------------------------------------------------- localbox.rs
\* the addresses of the T at ptr
bytes_of(ptr, T) == ptr .. (ptr + T.size - 1)

\* ptr.write(value) / *handle = value: every byte of the T at ptr now belongs to value
write(m, ptr, T, value) ==
    [x \in DOMAIN m \cup bytes_of(ptr, T) |-> IF x \in bytes_of(ptr, T) THEN value ELSE m[x]]

\* Deref::deref: the value read back through the handle's pointer (0: the
\* bytes no longer hold one value)
deref(m, box) ==
    IF \A x \in bytes_of(box.pointer, box.T) : x \in DOMAIN m /\ m[x] = m[box.pointer]
    THEN m[box.pointer]
    ELSE 0

\* the state of a handle after it goes out of scope: LocalBox has no Drop
\* impl and its only non-marker field is a raw pointer, so the drop glue
\* touches neither the value (dtor counts runs of T's destructor) nor memory
drop_box(box) == [box EXCEPT !.live = FALSE]

\* ------------------------------------------------------------------ state
NoCall ==
    [op |-> "none", T |-> TU8, size |-> 0, res |-> "none", ptr |-> 0, start |-> 0,
     bucket |-> 0, grew |-> 0, raw_err |-> FALSE]

Init ==
    /\ \E a \in arena_new :
        /\ index = a.index
        /\ buckets = a.buckets
        /\ brk = a.brk
        /\ allocated = a.allocated
    /\ released = <<>>
    /\ alive = TRUE
    /\ scope_open = FALSE
    /\ panicked = FALSE
    /\ overflow_checks \in BOOLEAN
    /\ regions = <<>>
    /\ last = NoCall
    /\ calls = 0
    /\ boxes = <<>>
    /\ mem = [x \in {} |-> 0]

\* the call record of outcome o of a request (op, T, size)
call_record(op, T, size, o) ==
    [op |-> op, T |-> T, size |-> size, res |-> o.res, ptr |-> o.ptr, start |-> o.start,
     bucket |-> o.bucket, grew |-> o.grew, raw_err |-> o.raw_err]

\* the arena variables take the value a
set_arena(a) ==
    /\ index' = a.index
    /\ buckets' = a.buckets
    /\ brk' = a.brk
    /\ allocated' = a.allocated

\* Arena::region: the callback starts, holding a Scope
RegionEnter ==
    /\ alive /\ ~panicked /\ ~scope_open
    /\ scope_open' = TRUE
    /\ UNCHANGED <<index, buckets, brk, allocated, released, alive, panicked,
                   overflow_checks, regions, last, calls, boxes, mem>>

\* Arena::region: the callback returns; the handles it created are gone
RegionExit ==
    /\ alive /\ ~panicked /\ scope_open
    /\ scope_open' = FALSE
    /\ set_arena(region_end(arena))
    /\ boxes' = [i \in DOMAIN boxes |-> drop_box(boxes[i])]
    /\ regions' = [i \in DOMAIN regions |-> [regions[i] EXCEPT !.open = FALSE]]
    /\ UNCHANGED <<released, alive, panicked, overflow_checks, last, calls, mem>>

\* Scope::malloc::<T>(size), called inside a region
ScopeMalloc(T, size) ==
    /\ alive /\ ~panicked /\ scope_open
    /\ calls < MaxCalls
    /\ \E o \in scope_malloc(arena, T, size, overflow_checks) :
        /\ Len(o.a.buckets) <= MaxBuckets
        /\ set_arena(o.a)
        /\ panicked' = is_panic(o.res)
        /\ last' = call_record("malloc", T, size, o)
        /\ regions' = IF o.res = "ok"
                      THEN Append(regions, [addr |-> o.ptr, bytes |-> T.size * size,
                                            T |-> T, size |-> size, bucket |-> o.bucket,
                                            open |-> TRUE])
                      ELSE regions
    /\ calls' = calls + 1
    /\ UNCHANGED <<released, alive, scope_open, overflow_checks, boxes, mem>>

\* LocalBox::new(scope, value): scope.malloc::<T>(1).expect(..), ptr.write(value)
LocalBoxNew(T, value) ==
    /\ alive /\ ~panicked /\ scope_open
    /\ calls < MaxCalls /\ Len(boxes) < MaxBoxes
    /\ \E o \in scope_malloc(arena, T, 1, overflow_checks) :
        /\ Len(o.a.buckets) <= MaxBuckets
        /\ set_arena(o.a)
        /\ panicked' = (o.res # "ok")
        /\ last' = call_record("box", T, 1, o)
        /\ regions' = IF o.res = "ok"
                      THEN Append(regions, [addr |-> o.ptr, bytes |-> T.size,
                                            T |-> T, size |-> 1, bucket |-> o.bucket,
                                            open |-> TRUE])
                      ELSE regions
        /\ boxes' = IF o.res = "ok"
                    THEN Append(boxes, [pointer |-> o.ptr, T |-> T, val |-> value,
                                        live |-> TRUE, dtor |-> 0])
                    ELSE boxes
        /\ mem' = IF o.res = "ok" THEN write(mem, o.ptr, T, value) ELSE mem
    /\ calls' = calls + 1
    /\ UNCHANGED <<released, alive, scope_open, overflow_checks>>

\* DerefMut::deref_mut and an assignment through it: *boxes[i] = value
LocalBoxWrite(i, value) ==
    /\ alive /\ ~panicked /\ scope_open
    /\ i \in DOMAIN boxes /\ boxes[i].live
    /\ boxes[i].val # value
    /\ mem' = write(mem, boxes[i].pointer, boxes[i].T, value)
    /\ boxes' = [boxes EXCEPT ![i].val = value]
    /\ UNCHANGED <<index, buckets, brk, allocated, released, alive, scope_open, panicked,
                   overflow_checks, regions, last, calls>>

\* a LocalBox goes out of scope inside the region
LocalBoxDrop(i) ==
    /\ alive /\ ~panicked /\ scope_open
    /\ i \in DOMAIN boxes /\ boxes[i].live
    /\ boxes' = [boxes EXCEPT ![i] = drop_box(boxes[i])]
    /\ UNCHANGED <<index, buckets, brk, allocated, released, alive, scope_open, panicked,
                   overflow_checks, regions, last, calls, mem>>

\* the Arena is dropped (after its regions, or while a panic unwinds): Vec<Bucket>
\* drops every Bucket, and Drop for Bucket calls dealloc_raw
ArenaDrop ==
    /\ alive /\ (~scope_open \/ panicked)
    /\ alive' = FALSE
    /\ scope_open' = FALSE
    /\ released' = released \o [i \in DOMAIN buckets |-> dealloc_raw(buckets[i])]
    /\ boxes' = [i \in DOMAIN boxes |-> drop_box(boxes[i])]
    /\ UNCHANGED <<index, buckets, brk, allocated, panicked, overflow_checks, regions,
                   last, calls, mem>>

\* the malloc requests made: byte sizes up to the first that overflows a usize
Requests ==
    {r \in [T : Types, size : Counts] : r.T.size * r.size <= WordMod}

Next ==
    \/ RegionEnter
    \/ RegionExit
    \/ \E r \in Requests : ScopeMalloc(r.T, r.size)
    \/ \E T \in BoxTypes, value \in Vals : LocalBoxNew(T, value)
    \/ \E i \in 1..MaxBoxes, value \in Vals : LocalBoxWrite(i, value)
    \/ \E i \in 1..MaxBoxes : LocalBoxDrop(i)
    \/ ArenaDrop

Spec == Init /\ [][Next]_vars

\* ------------------------------------------- a caller that retries a request
\* the largest capacity MaxBuckets buckets reach, and the requests an empty
\* bucket of that capacity serves at any base address
LargestCapacity == DefaultCapacity * 2 ^ (MaxBuckets - 1)
FitsLargest(T, size) == (T.align - 1) + T.size * size <= LargestCapacity

\* one Scope::malloc::<T>(size) call whose raw allocations all succeed
RetryCall(op, T, size) ==
    /\ alive /\ ~panicked /\ scope_open
    /\ \E o \in {x \in scope_malloc(arena, T, size, overflow_checks) : ~x.raw_err} :
        /\ Len(o.a.buckets) <= MaxBuckets
        /\ set_arena(o.a)
        /\ panicked' = is_panic(o.res)
        /\ last' = call_record(op, T, size, o)
        /\ regions' = IF o.res = "ok"
                      THEN Append(regions, [addr |-> o.ptr, bytes |-> T.size * size,
                                            T |-> T, size |-> size, bucket |-> o.bucket,
                                            open |-> TRUE])
                      ELSE regions
    /\ calls' = calls + 1
    /\ UNCHANGED <<released, alive, scope_open, overflow_checks, boxes, mem>>

\* the caller issues a new request once the previous one was answered Ok
Request(T, size) ==
    /\ last.res # "cap"
    /\ calls < MaxCalls
    /\ FitsLargest(T, size)
    /\ RetryCall("malloc", T, size)

\* the caller got Err(CapacityError) and issues the same request again
Reissue ==
    /\ last.res = "cap"
    /\ RetryCall("retry", last.T, last.size)

RetryNext ==
    \/ RegionEnter
    \/ \E T \in Types, size \in Counts : Request(T, size)
    \/ Reissue

\* the caller's loop runs on: a pending re-issue is eventually made
RetrySpec == Init /\ [][RetryNext]_vars /\ WF_vars(Reissue)

\* ================================================================ claims
\* two returned regions share a byte
Overlap(r1, r2) ==
    /\ r1.bytes > 0 /\ r2.bytes > 0
    /\ r1.addr < r2.addr + r2.bytes
    /\ r2.addr < r1.addr + r1.bytes

\* C1: while the Arena is alive, no two regions of non-zero length
\* [addr, addr + size_of(T) * count) returned by successful Scope::malloc
\* calls share a byte, whatever the element sizes, alignments and counts.
C1_NoOverlap ==
    alive => \A i, j \in DOMAIN regions : i < j => ~Overlap(regions[i], regions[j])

\* C2: every address a successful malloc::<T>(count) returns is a multiple of
\* align_of(T), whatever the bucket's data address and cursor, and the
\* alignment assertion inside BucketImpl::malloc never fires.
C2_AddressAligned ==
    /\ \A i \in DOMAIN regions : regions[i].addr % regions[i].T.align = 0
    /\ last.res # "panic_assert"

\* C2 witness: an 8-aligned T was placed in a bucket whose data does not start
\* on an 8-byte boundary, behind a cursor that was not on one either
C2_Witness ==
    \E i \in DOMAIN regions :
        /\ regions[i].T = TU64 /\ regions[i].bytes > 0
        /\ data_ptr(buckets[regions[i].bucket + 1]) % 8 # 0
        /\ i > 1 /\ regions[i - 1].bucket = regions[i].bucket
        /\ (regions[i - 1].addr + regions[i - 1].bytes) % 8 # 0

\* the step is one Scope::malloc call (directly or from LocalBox::new); its
\* request and outcome are in last'
IsCall == calls' = calls + 1

\* the result of the call's first attempt, against the bucket that is active
\* when the call starts
FirstAttempt == bucket_malloc(buckets[index + 1], last'.T, last'.size, overflow_checks)

\* C3 as stated: a Scope::malloc call appends exactly one bucket and advances
\* active_index by exactly 1 when the active bucket cannot satisfy the request
\* (its attempt returns CapacityError), and leaves the bucket count and
\* active_index unchanged when it can; no call appends more than one bucket;
\* so the bucket count is always active_index + 1.
C3_OneBucketPerExhaustion ==
    /\ [](Len(buckets) = index + 1)
    /\ [][IsCall =>
            /\ Len(buckets') \in {Len(buckets), Len(buckets) + 1}
            /\ FirstAttempt.res = "cap" =>
                    /\ Len(buckets') = Len(buckets) + 1
                    /\ index' = index + 1
            /\ FirstAttempt.res = "ok" =>
                    /\ Len(buckets') = Len(buckets)
                    /\ index' = index]_vars

\* C3 amended: a Scope::malloc call appends exactly one bucket and advances
\* active_index by exactly 1 when the active bucket cannot satisfy the request
\* and the raw allocation of the new bucket succeeds (the call returns); in
\* every other case, a failed raw allocation included, it leaves the bucket
\* count and active_index unchanged; so the bucket count is always
\* active_index + 1.
C3_OneBucketPerCompletedGrowth ==
    /\ [](Len(buckets) = index + 1)
    /\ [][IsCall =>
            /\ Len(buckets') \in {Len(buckets), Len(buckets) + 1}
            /\ FirstAttempt.res = "cap" /\ ~last'.raw_err =>
                    /\ Len(buckets') = Len(buckets) + 1
                    /\ index' = index + 1
                    /\ last'.grew = 1
                    /\ ~is_panic(last'.res)
            /\ FirstAttempt.res # "cap" \/ last'.raw_err =>
                    /\ Len(buckets') = Len(buckets)
                    /\ index' = index
                    /\ last'.grew = 0]_vars

\* C3 witness: the end of tests::test_arena (u8 x 512, u64 x 128, u8 x 1):
\* two exhaustion events, three buckets, active_index 2
C3_Witness ==
    /\ Len(regions) = 3
    /\ regions[1].T = TU8 /\ regions[1].size = 512
    /\ regions[2].T = TU64 /\ regions[2].size = 128
    /\ regions[3].T = TU8 /\ regions[3].size = 1
    /\ last.grew = 1 /\ last.res = "ok"
    /\ index = 2 /\ Len(buckets) = 3

\* the padding that aligns the data start of a bucket for T
BasePad(b, T) == (T.align - (data_ptr(b) % T.align)) % T.align

\* C4 as stated: when the active bucket cannot satisfy the request and the
\* Arena grows, the retry against the new bucket succeeds whenever
\* size_of(T) * count <= the new bucket's capacity, and otherwise the call
\* returns CapacityError.
C4_RetrySucceedsIfBytesFit ==
    last.grew = 1 =>
        IF last.T.size * last.size <= capacity(buckets[index + 1])
        THEN last.res = "ok"
        ELSE last.res = "cap"

\* C4 amended: when the active bucket cannot satisfy the request and the
\* growth step completes, the bucket count increases by exactly 1 and the
\* retry succeeds, at the first address of the new bucket aligned for T,
\* whenever pad + size_of(T) * count <= the new bucket's capacity, pad being
\* the bytes from the new bucket's data start to that address; when
\* pad + size_of(T) * count exceeds the capacity and the product fits a
\* usize, the call returns CapacityError.
C4_RetrySucceedsIfPaddedBytesFit ==
    [][IsCall /\ FirstAttempt.res = "cap" /\ ~is_panic(last'.res) =>
        LET b == buckets'[index' + 1]
            pad == BasePad(b, last'.T)
            bytes == last'.T.size * last'.size
        IN  /\ Len(buckets') = Len(buckets) + 1
            /\ pad + bytes <= capacity(b) =>
                    last'.res = "ok" /\ last'.ptr = data_ptr(b) + pad
            /\ pad + bytes > capacity(b) /\ bytes < WordMod => last'.res = "cap"]_vars

\* C4 witness: a retry that succeeded behind alignment padding in the new bucket
C4_Witness ==
    /\ last.grew = 1 /\ last.res = "ok"
    /\ last.start > 0 /\ last.T.size * last.size > 0
    /\ last.ptr = data_ptr(buckets[index + 1]) + last.start

\* C5: when the raw allocation of a bucket fails during a growth step, the
\* Scope::malloc call that triggered the growth returns a typed error value
\* to its caller: the failure does not panic the thread, and the bucket list
\* and active_index are left unchanged.
C5_RawFailureIsReturned ==
    [][IsCall /\ last'.raw_err =>
        /\ ~panicked'
        /\ buckets' = buckets
        /\ index' = index]_vars

\* C6: every bucket appended by growth has exactly twice the capacity of the
\* bucket that was active at the moment of growth, and active_index then
\* points at it; from the 512-byte bucket of Arena::new, the bucket at
\* position i therefore has capacity 512 * 2^i.
C6_CapacityDoubles ==
    /\ [](\A i \in DOMAIN buckets : capacity(buckets[i]) = DefaultCapacity * 2 ^ (i - 1))
    /\ [][Len(buckets') > Len(buckets) =>
            /\ index' = Len(buckets') - 1
            /\ capacity(buckets'[index' + 1]) = 2 * capacity(buckets[index + 1])
            /\ SubSeq(buckets', 1, Len(buckets)) = buckets]_vars

\* C6 witness: two growth steps have happened
C6_Witness ==
    /\ Len(buckets) = 3 /\ index = 2
    /\ capacity(buckets[3]) = 2048

\* C7: Scope::malloc::<T>(0) never returns CapacityError, and it leaves the
\* cursor of the bucket it is served from at the aligned offset.
C7_ZeroCountNeverCapacityError ==
    last.op = "malloc" /\ last.size = 0 =>
        /\ last.res # "cap"
        /\ last.res = "ok" => buckets[index + 1].index = last.start

\* C8: dropping the Arena releases every bucket it ever allocated exactly
\* once, each with the layout (byte size and alignment) it was allocated
\* with, and no bucket is released while the Arena is alive.
C8_BucketsReleasedOnce ==
    /\ alive => released = <<>>
    /\ ~alive =>
        /\ Len(released) = Cardinality(allocated)
        /\ Range(released) = allocated

\* C8 witness: an Arena that grew twice and holds a partly used bucket has been dropped
C8_Witness ==
    /\ ~alive
    /\ Len(released) = 3
    /\ \E i \in DOMAIN buckets : ~is_full(buckets[i]) /\ buckets[i].index > 0

\* C9: when a LocalBox is dropped, the stored value's own destructor runs
\* exactly once, and the backing bytes are not released.
C9_DropRunsDestructorOnce ==
    \A i \in DOMAIN boxes : ~boxes[i].live =>
        /\ boxes[i].dtor = 1
        /\ alive => released = <<>>

\* C10: dereferencing a live handle yields the value last written through
\* it (the value given to LocalBox::new until then), whatever further
\* LocalBox::new and Scope::malloc calls, growth steps and writes through
\* other handles happened since; and LocalBox::new issues exactly one
\* malloc::<T>(1) request, whose region it keeps.
C10_DerefYieldsValue ==
    /\ [](\A i \in DOMAIN boxes : boxes[i].live => deref(mem, boxes[i]) = boxes[i].val)
    /\ [][Len(boxes') = Len(boxes) + 1 =>
            LET new == boxes'[Len(boxes')]
            IN  /\ IsCall
                /\ last'.op = "box" /\ last'.res = "ok"
                /\ last'.T = new.T /\ last'.size = 1
                /\ last'.ptr = new.pointer
                /\ Len(regions') = Len(regions) + 1
                /\ deref(mem', new) = new.val]_vars

\* C10 witness: two live handles holding different values, the first in the
\* first bucket and the second in a bucket appended later, after a write
\* through the second
C10_Witness ==
    /\ Len(boxes) = 2 /\ boxes[1].live /\ boxes[2].live
    /\ boxes[1].val # boxes[2].val
    /\ \E i, j \in DOMAIN regions :
        /\ regions[i].addr = boxes[1].pointer /\ regions[i].bucket = 0
        /\ regions[j].addr = boxes[2].pointer /\ regions[j].bucket = 1
    /\ last.op = "box" /\ boxes[2].T = boxes[1].T
    /\ deref(mem, boxes[1]) = boxes[1].val

\* C11 as stated: of any two consecutive successful allocations on the Arena
\* the second region never starts before the first region ends, and no
\* bucket's cursor ever decreases.
C11_SecondStartsAfterFirstEnds ==
    /\ [](\A i \in DOMAIN regions : i + 1 \in DOMAIN regions =>
            regions[i + 1].addr >= regions[i].addr + regions[i].bytes)
    /\ [][\A i \in DOMAIN buckets : buckets'[i].index >= buckets[i].index]_vars

\* C11 amended: of any two consecutive successful allocations served from
\* the same bucket, the first of a byte size that fits a usize, the second
\* region never starts before the first region ends; and no bucket's cursor
\* ever decreases.  (Across a growth step the second region lies in the new
\* bucket, which the system allocator may place below the old one.)
C11_SecondStartsAfterFirstEndsInBucket ==
    /\ [](\A i \in DOMAIN regions : i + 1 \in DOMAIN regions =>
            (regions[i + 1].bucket = regions[i].bucket /\ regions[i].bytes < WordMod =>
                regions[i + 1].addr >= regions[i].addr + regions[i].bytes))
    /\ [][\A i \in DOMAIN buckets : buckets'[i].index >= buckets[i].index]_vars

\* C11 witness: two consecutive allocations in one bucket, the second
\* behind alignment padding after the first
C11_Witness ==
    \E i \in DOMAIN regions :
        /\ i + 1 \in DOMAIN regions
        /\ regions[i + 1].bucket = regions[i].bucket
        /\ regions[i].bytes > 0 /\ regions[i].bytes < WordMod
        /\ regions[i + 1].bytes > 0
        /\ regions[i + 1].addr > regions[i].addr + regions[i].bytes

\* the bytes a successful allocation reserved in its bucket (the slice
\* BucketImpl::malloc took): two of them share a byte
Reserved(r) == r.bytes % WordMod
SharesReserved(r1, r2) ==
    /\ Reserved(r1) > 0 /\ Reserved(r2) > 0
    /\ r1.addr < r2.addr + Reserved(r2)
    /\ r2.addr < r1.addr + Reserved(r1)

\* C12: the end of a region call leaves the Arena unchanged (no bucket is
\* released, no cursor is reset, active_index is unchanged), so an allocation
\* made in a later region never reuses bytes handed out in an earlier
\* region; bucket memory is released only when the Arena is dropped.
C12_RegionEndKeepsArena ==
    /\ [][scope_open /\ ~scope_open' /\ alive' =>
            /\ buckets' = buckets
            /\ index' = index
            /\ allocated' = allocated
            /\ released' = released]_vars
    /\ [](\A i, j \in DOMAIN regions :
            ~regions[i].open /\ regions[j].open => ~SharesReserved(regions[i], regions[j]))
    /\ [][released' # released => alive /\ ~alive']_vars

\* C12 witness: a second region call allocates from the bucket the first one
\* allocated from
C12_Witness ==
    \E i, j \in DOMAIN regions :
        /\ ~regions[i].open /\ regions[j].open
        /\ regions[i].bucket = regions[j].bucket
        /\ Reserved(regions[i]) > 0 /\ Reserved(regions[j]) > 0

\* the claimed reference for BucketImpl::malloc::<T>(count) on bucket b: the
\* smallest offset >= cursor whose address is a multiple of align_of(T), and
\* the bytes required
AlignedOffset(b, T) == RoundUp(data_ptr(b) + b.index, T.align) - data_ptr(b)
RequiredBytes(T, count) == T.size * count

\* C13: Bucket malloc<T>(count) agrees with the reference for every cursor,
\* capacity, base address, T and count: if alignedOffset + requiredBytes
\* exceeds the capacity the call returns CapacityError and the cursor is
\* unchanged; otherwise it returns the region starting at alignedOffset and
\* sets cursor = alignedOffset + requiredBytes.
C13_BucketMallocAgreesWithReference ==
    [][IsCall =>
        LET b == buckets[index + 1]
            m == FirstAttempt
            aligned == AlignedOffset(b, last'.T)
            required == RequiredBytes(last'.T, last'.size)
        IN  IF aligned + required > capacity(b)
            THEN m.res = "cap" /\ m.index = b.index
            ELSE /\ m.res = "ok"
                 /\ m.ptr = data_ptr(b) + aligned
                 /\ m.index = aligned + required]_vars

\* C14: for every count, including counts for which size_of(T) * count
\* exceeds the machine word range, a Bucket malloc<T>(count) request whose
\* true byte requirement exceeds the bucket's capacity fails with
\* CapacityError: it never panics and never succeeds with a region shorter
\* than size_of(T) * count bytes.
C14_OversizedRequestIsCapacityError ==
    [][IsCall /\ RequiredBytes(last'.T, last'.size) > capacity(buckets[index + 1]) =>
        FirstAttempt.res = "cap"]_vars

\* C15: in every bucket state, Bucket malloc<T>(0) succeeds with a
\* zero-length region and leaves the cursor at no more than the aligned
\* offset.
C15_ZeroCountAlwaysSucceeds ==
    [][IsCall /\ last'.size = 0 =>
        /\ FirstAttempt.res = "ok"
        /\ FirstAttempt.index <= AlignedOffset(buckets[index + 1], last'.T)]_vars

\* a full bucket stays full
StaysFull ==
    \A i \in DOMAIN buckets : is_full(buckets[i]) => is_full(buckets'[i])

\* C16 as stated: once a bucket is full it issues no further allocations:
\* every subsequent malloc on that bucket returns CapacityError and the
\* bucket stays full for the rest of its lifetime.
C16_FullBucketRejectsEveryRequest ==
    [][/\ IsCall /\ is_full(buckets[index + 1]) => FirstAttempt.res = "cap"
       /\ StaysFull]_vars

\* C16 amended: once a bucket is full it reserves no further byte and stays
\* full for the rest of its lifetime; a malloc on it succeeds only with an
\* empty reservation at the end of the bucket (the byte count the build
\* computes is 0 and the end of the bucket is aligned for T), and a request
\* of one or more bytes whose size fits a usize returns CapacityError.
C16_FullBucketReservesNothing ==
    [][/\ IsCall /\ is_full(buckets[index + 1]) =>
            LET b == buckets[index + 1]
                m == FirstAttempt
                required == RequiredBytes(last'.T, last'.size)
            IN  /\ m.res = "ok" =>
                    /\ wrapping_mul(last'.T, last'.size) = 0
                    /\ m.ptr = data_ptr(b) + capacity(b)
                    /\ m.index = capacity(b)
                /\ required > 0 /\ required < WordMod => m.res = "cap"
       /\ StaysFull]_vars

\* C16 witness: a full bucket answered a zero-count request with success
C16_Witness ==
    /\ last.op = "malloc" /\ last.res = "ok" /\ last.grew = 0 /\ last.size = 0
    /\ is_full(buckets[last.bucket + 1])
    /\ last.ptr = data_ptr(buckets[last.bucket + 1]) + capacity(buckets[last.bucket + 1])

\* C17: in every state of every bucket 0 <= cursor <= capacity; the capacity
\* (and the block) of a bucket never changes after construction; the cursor
\* of a freshly constructed bucket is 0: the first bucket starts at 0 and a
\* bucket appended by a call holds exactly what the call's retry reserved
\* from cursor 0.
C17_CursorWithinCapacity ==
    /\ [](\A i \in DOMAIN buckets :
            buckets[i].index >= 0 /\ buckets[i].index <= capacity(buckets[i]))
    /\ [](calls = 0 => buckets[1].index = 0)
    /\ [][\A i \in DOMAIN buckets :
            buckets'[i].cap = buckets[i].cap /\ buckets'[i].ptr = buckets[i].ptr]_vars
    /\ [][\A i \in DOMAIN buckets' \ DOMAIN buckets :
            buckets'[i].index =
                IF last'.res = "ok"
                THEN bucket_malloc([buckets'[i] EXCEPT !.index = 0], last'.T, last'.size,
                                   overflow_checks).index
                ELSE 0]_vars

\* C17 witness: a bucket filled to exactly its capacity beside an appended
\* bucket still at cursor 0
C17_Witness ==
    \E i, j \in DOMAIN buckets :
        /\ capacity(buckets[i]) > 0 /\ buckets[i].index = capacity(buckets[i])
        /\ j > 1 /\ buckets[j].index = 0

\* C18: in every Arena state from Arena::new onward the bucket list is
\* non-empty and active_index is a valid index into it, so no malloc takes
\* the "no bucket exists yet" branch and no bucket lookup by active_index
\* goes out of bounds.
C18_ActiveIndexValid ==
    /\ [](alive => buckets # <<>> /\ index >= 0 /\ index + 1 \in DOMAIN buckets)
    /\ [](last.res # "panic_index")
    /\ [][IsCall => last_bucket(arena) = "some" /\ last_bucket(arena') = "some"]_vars

\* C18 witness: a call grew the arena and was answered from the new bucket
C18_Witness ==
    /\ alive /\ Len(buckets) >= 2 /\ index + 1 = Len(buckets)
    /\ last.grew = 1 /\ last.res = "ok" /\ last.bucket = index

\* C19: active_index never decreases; a bucket that is not active is never
\* changed again, whether or not it has free bytes; the bucket a growth step
\* replaces keeps the cursor it had; every successful allocation lies in the
\* bucket that is active when the call returns.
C19_OnlyActiveBucketServes ==
    [][/\ index' >= index
       /\ \A i \in DOMAIN buckets : i < index + 1 => buckets'[i] = buckets[i]
       /\ \A i \in DOMAIN buckets :
            i = index + 1 /\ index' > index => buckets'[i] = buckets[i]
       /\ IsCall /\ last'.res = "ok" =>
            LET b == buckets'[index' + 1]
            IN  /\ last'.bucket = index'
                /\ last'.ptr >= data_ptr(b)
                /\ last'.ptr + wrapping_mul(last'.T, last'.size) <= data_ptr(b) + capacity(b)
                /\ b.index = (last'.ptr - data_ptr(b)) + wrapping_mul(last'.T, last'.size)]_vars

\* C19 witness: an allocation of one or more bytes served from a later bucket
\* while the first bucket still has free bytes
C19_Witness ==
    /\ index >= 1 /\ ~is_full(buckets[1])
    /\ last.res = "ok" /\ last.bucket = index
    /\ wrapping_mul(last.T, last.size) > 0
    /\ wrapping_mul(last.T, last.size) <= capacity(buckets[1]) - buckets[1].index

\* C20: assuming raw allocation never fails and capacity doubling does not
\* overflow, a caller that re-issues the same Scope::malloc::<T>(count)
\* request after each CapacityError eventually gets Ok for it; every failed
\* call leaves a strictly larger, empty active bucket.
C20_RetryEventuallySucceeds ==
    /\ (last.res = "cap") ~> (last.res = "ok" /\ last.op = "retry")
    /\ [][IsCall /\ last.res = "cap" =>
            last'.op = "retry" /\ last'.T = last.T /\ last'.size = last.size]_vars
    /\ [][IsCall /\ last'.res = "cap" =>
            /\ capacity(buckets'[index' + 1]) > capacity(buckets[index + 1])
            /\ buckets'[index' + 1].index = 0]_vars

\* C20 witness: a request that failed against a freshly doubled bucket was
\* re-issued and served from the next, larger bucket
C20_Witness ==
    /\ last.op = "retry" /\ last.res = "ok" /\ last.grew = 1
    /\ Len(buckets) >= 3
    /\ buckets[index].index = 0

====
